---- MODULE Spec2Model ----
(***************************************************************************)
(* Model of passkey.py: batch encryption of the PDF files of the working   *)
(* directory with the (filename, password) pairs read from a spreadsheet.  *)
(*                                                                         *)
(* Text is modelled as sequences of one-character strings, so that strip,  *)
(* lower and endswith are computed character by character.  A spreadsheet  *)
(* cell is a record [t, s, n]: t = "none" (empty cell), "text" (s is the   *)
(* text) or "num" (n is the integer).  A file content is a record          *)
(* [k, src, user, owner]: k = "plain" (an openable document), "locked"     *)
(* (encrypted with a password nobody supplies), "corrupt" (cannot be       *)
(* opened), "unsavable" (opens, but saving it fails half way), "partial"   *)
(* (a truncated write) or "enc" (the document src encrypted with the user  *)
(* and owner passwords).                                                   *)
(***************************************************************************)
EXTENDS Integers, Sequences, FiniteSets, TLC

VARIABLES
    pc,         \* position of the program (or of the function under test)
    excel,      \* the spreadsheet: [exists, state, rows]
    args,       \* parsed command line: [inplace, outdir, owner]
    cwdfs,      \* working directory, in listing order: Seq([name, kind, content])
    outfs,      \* files below the output directory: Seq([name, kind, content])
    mapping,    \* the loaded dict, in insertion order: Seq([name, password])
    idx,        \* number of mapping entries the for loop has taken
    total, ok, skipped, failed,   \* the batch counters
    in_pdf,     \* resolve_pdf_path's result for the current entry
    exitStatus, \* process exit status, NoExit while running
    summary,    \* the counts the summary printed, once printed
    run,        \* number of the current run of the tool (1, 2, ...)
    hist,       \* bookkeeping for the properties: pre-run files, outcomes, previous run
    arg, ret    \* argument and result of the function under test

vars == <<pc, excel, args, cwdfs, outfs, mapping, idx, total, ok, skipped,
          failed, in_pdf, exitStatus, summary, run, hist, arg, ret>>

---------------------------------------------------------------------------
(* Text primitives of Python used by the program.                          *)

Upper == <<"A","B","C","D","E","F","G","H","I","J","K","L","M",
           "N","O","P","Q","R","S","T","U","V","W","X","Y","Z">>
Lowercase == <<"a","b","c","d","e","f","g","h","i","j","k","l","m",
               "n","o","p","q","r","s","t","u","v","w","x","y","z">>

LowerChar(c) ==
    IF \E i \in 1..Len(Upper) : Upper[i] = c
    THEN Lowercase[CHOOSE i \in 1..Len(Upper) : Upper[i] = c]
    ELSE c

\* str.lower()
RECURSIVE lower(_)
lower(s) == IF s = <<>> THEN <<>> ELSE <<LowerChar(Head(s))>> \o lower(Tail(s))

Whitespace == {" ", "\t"}

RECURSIVE lstrip(_)
lstrip(s) == IF s # <<>> /\ Head(s) \in Whitespace THEN lstrip(Tail(s)) ELSE s

RECURSIVE rstrip(_)
rstrip(s) ==
    IF s # <<>> /\ s[Len(s)] \in Whitespace
    THEN rstrip(SubSeq(s, 1, Len(s) - 1))
    ELSE s

\* str.strip()
strip(s) == rstrip(lstrip(s))

\* str.endswith(suffix)
endswith(s, suffix) ==
    /\ Len(s) >= Len(suffix)
    /\ SubSeq(s, Len(s) - Len(suffix) + 1, Len(s)) = suffix

Digits == <<"0","1","2","3","4","5","6","7","8","9">>

RECURSIVE DecimalOf(_)
DecimalOf(n) ==
    IF n < 10 THEN <<Digits[n + 1]>>
    ELSE DecimalOf(n \div 10) \o <<Digits[(n % 10) + 1]>>

\* Cells as openpyxl hands them over (values_only=True).
NoneCell == [t |-> "none", s |-> <<>>, n |-> 0]
Text(s) == [t |-> "text", s |-> s, n |-> 0]
Num(n) == [t |-> "num", s |-> <<>>, n |-> n]

\* str(v) of a cell value that is not None
str(v) == IF v.t = "num" THEN DecimalOf(v.n) ELSE v.s

\* norm(s) = str(s).strip().lower()
norm(v) == lower(strip(str(v)))

---------------------------------------------------------------------------
(* detect_columns                                                          *)

FilenameAliases ==
    { <<"f","i","l","e","n","a","m","e">>, <<"f","i","l","e">>,
      <<"n","a","m","e">>, <<"p","d","f">>,
      <<"p","d","f","n","a","m","e">>,
      <<"u6587","u4ef6","u540d">>, <<"u6587","u4ef6">>, <<"u540d","u79f0">> }

PasswordAliases ==
    { <<"p","a","s","s","w","o","r","d">>, <<"p","w","d">>,
      <<"p","a","s","s">>, <<"u5bc6","u7801">> }

\* A CJK character of the source is written as one token naming its code point.
HEADER_ALIASES == [filename |-> FilenameAliases, password |-> PasswordAliases]

\* values = [norm(v) if v is not None else "" for v in first_row_values]
RowValues(first_row_values) ==
    [i \in 1..Len(first_row_values) |->
        IF first_row_values[i].t = "none" THEN <<>> ELSE norm(first_row_values[i])]

\* The loop of lines 39-43 keeps the LAST matching index; -1 stands for None.
\* Indices are 0-based as in the source.
LastMatch(values, aliases) ==
    LET hits == {i \in 1..Len(values) : values[i] \in aliases}
    IN  IF hits = {} THEN -1
        ELSE (CHOOSE i \in hits : \A j \in hits : j <= i) - 1

\* detect_columns with the fallback of line 55 giving column 0 as well.
detect_columns_SameDefault(first_row_values) ==
    LET values == RowValues(first_row_values)
        fn_idx == LastMatch(values, HEADER_ALIASES.filename)
        pw_idx == LastMatch(values, HEADER_ALIASES.password)
        has_header == (fn_idx # -1) \/ (pw_idx # -1)
    IN  IF ~has_header
        THEN [fn_col |-> 0, pw_col |-> 1, has_header |-> FALSE]
        ELSE [fn_col |-> IF fn_idx = -1 THEN 0 ELSE fn_idx,
              pw_col |-> IF pw_idx = -1 THEN 0 ELSE pw_idx,
              has_header |-> TRUE]

detect_columns(first_row_values) ==
    LET values == RowValues(first_row_values)
        fn_idx == LastMatch(values, HEADER_ALIASES.filename)
        pw_idx == LastMatch(values, HEADER_ALIASES.password)
        has_header == (fn_idx # -1) \/ (pw_idx # -1)
    IN  IF ~has_header
        THEN [fn_col |-> 0, pw_col |-> 1, has_header |-> FALSE]
        ELSE [fn_col |-> IF fn_idx = -1 THEN 0 ELSE fn_idx,
              pw_col |-> IF pw_idx = -1 THEN 1 ELSE pw_idx,
              has_header |-> TRUE]

---------------------------------------------------------------------------
(* load_mapping_from_excel                                                 *)

\* r[col] if col < len(r) else None     (col is 0-based)
CellAt(r, col) == IF col < Len(r) THEN r[col + 1] ELSE NoneCell

\* Blank without the strip().
BlankNoStrip(v) == v.t = "none" \/ str(v) = <<>>

\* fn is None or str(fn).strip() == ""
Blank(v) == v.t = "none" \/ strip(str(v)) = <<>>

\* mapping[filename] = password on a dict kept in insertion order: an existing
\* key keeps its position and takes the new value, a new key goes last.
DictSet(m, key, value) ==
    IF \E i \in 1..Len(m) : m[i].name = key
    THEN [i \in 1..Len(m) |->
            IF m[i].name = key THEN [name |-> key, password |-> value] ELSE m[i]]
    ELSE Append(m, [name |-> key, password |-> value])

\* The body of the for loop of lines 81-96 on one row.
LoadRow(m, r, fn_col, pw_col) ==
    LET fn == CellAt(r, fn_col)
        pw == CellAt(r, pw_col)
    IN  IF Blank(fn) THEN m
        ELSE IF Blank(pw) THEN m
        ELSE DictSet(m, strip(str(fn)), strip(str(pw)))

RECURSIVE LoadRows(_, _, _, _)
LoadRows(m, rows, fn_col, pw_col) ==
    IF rows = <<>> THEN m
    ELSE LoadRows(LoadRow(m, Head(rows), fn_col, pw_col), Tail(rows), fn_col, pw_col)

\* Result of the call: [raised, mapping].  The workbook cannot be opened
\* ("unreadable"), the named sheet is not in it ("nosheet"), or the sheet has
\* no rows: an exception.  Otherwise the dict built from the data rows.
load_mapping_from_excel(x) ==
    IF x.state # "ok" \/ x.rows = <<>>
    THEN [raised |-> TRUE, mapping |-> <<>>]
    ELSE LET cols == detect_columns(x.rows[1])
             start_idx == IF cols.has_header THEN 1 ELSE 0
         IN  [raised |-> FALSE,
              mapping |-> LoadRows(<<>>, SubSeq(x.rows, start_idx + 1, Len(x.rows)),
                                   cols.fn_col, cols.pw_col)]

---------------------------------------------------------------------------
(* resolve_pdf_path                                                        *)

DotPdf == <<".","p","d","f">>

\* os.path.isfile(os.path.join(cwd, name)) on a case-sensitive file system
IsFile(dir, name) == \E i \in 1..Len(dir) : dir[i].name = name /\ dir[i].kind = "file"

NotFound == [found |-> FALSE, name |-> <<>>]
Found(name) == [found |-> TRUE, name |-> name]

\* FirstFuzzyFrom without the os.path.isfile test of line 127.
RECURSIVE FirstFuzzyAnyKind(_, _, _)
FirstFuzzyAnyKind(dir, i, target_lower) ==
    IF i > Len(dir) THEN NotFound
    ELSE IF lower(dir[i].name) = target_lower THEN Found(dir[i].name)
    ELSE FirstFuzzyAnyKind(dir, i + 1, target_lower)

\* The scan of lines 126-130 from the i-th entry of the listing on: the
\* first entry that is a regular file and whose lowercased name is
\* target_lower, None after the last entry.
RECURSIVE FirstFuzzyFrom(_, _, _)
FirstFuzzyFrom(dir, i, target_lower) ==
    IF i > Len(dir) THEN NotFound
    ELSE IF lower(dir[i].name) = target_lower /\ dir[i].kind = "file"
    THEN Found(dir[i].name)
    ELSE FirstFuzzyFrom(dir, i + 1, target_lower)

\* lines 119-130: the direct match on base, then the scan of the listing
MatchBase(dir, base) ==
    IF IsFile(dir, base) THEN Found(base)
    ELSE FirstFuzzyFrom(dir, 1, lower(base))

resolve_pdf_path(dir, filename_from_excel) ==
    LET cand == strip(filename_from_excel)
    IN  IF endswith(lower(cand), DotPdf)
        THEN IF IsFile(dir, cand) THEN Found(cand) ELSE MatchBase(dir, cand)
        ELSE MatchBase(dir, cand \o DotPdf)

---------------------------------------------------------------------------
(* The file system.  A directory is the sequence of its entries in listing *)
(* order; a path is the sequence of its components below the working       *)
(* directory, as os.path.join builds it.                                   *)

Dot == <<".">>
TmpSuffix == <<".","t","m","p","_","e","n","c","r","y","p","t">>

\* The file a path designates: "." components designate the directory itself.
NormPath(p) == SelectSeq(p, LAMBDA c : c # Dot)

HasEntry(dir, name) == \E i \in 1..Len(dir) : dir[i].name = name
EntryOf(dir, name) == dir[CHOOSE i \in 1..Len(dir) : dir[i].name = name]

\* Create or truncate-and-write the regular file `name` of a directory.
WriteFile(dir, name, content) ==
    IF HasEntry(dir, name)
    THEN [i \in 1..Len(dir) |->
            IF dir[i].name = name
            THEN [name |-> name, kind |-> "file", content |-> content]
            ELSE dir[i]]
    ELSE Append(dir, [name |-> name, kind |-> "file", content |-> content])

RemoveEntry(dir, name) == SelectSeq(dir, LAMBDA e : e.name # name)

\* fs = [cwd, out]: the working directory and the directory below it that
\* --outdir names.  A path of one component is a file of the working
\* directory, a path of two components a file of the output directory.
ReadPath(fs, p) ==
    LET q == NormPath(p)
    IN  IF Len(q) = 1 THEN EntryOf(fs.cwd, q[1]).content
        ELSE EntryOf(fs.out, q[2]).content

WritePath(fs, p, content) ==
    LET q == NormPath(p)
    IN  IF Len(q) = 1
        THEN [fs EXCEPT !.cwd = WriteFile(fs.cwd, q[1], content)]
        ELSE [fs EXCEPT !.out = WriteFile(fs.out, q[2], content)]

NoContent == [k |-> "dir", src |-> "", user |-> <<>>, owner |-> <<>>]
Plain(id) == [k |-> "plain", src |-> id, user |-> <<>>, owner |-> <<>>]
Locked == [k |-> "locked", src |-> "", user |-> <<>>, owner |-> <<>>]
Corrupt == [k |-> "corrupt", src |-> "", user |-> <<>>, owner |-> <<>>]
Unsavable == [k |-> "unsavable", src |-> "", user |-> <<>>, owner |-> <<>>]
Partial == [k |-> "partial", src |-> "", user |-> <<>>, owner |-> <<>>]
Encrypted(id, user, owner) == [k |-> "enc", src |-> id, user |-> user, owner |-> owner]

\* --owner: [given, pw]; given = FALSE is the default None.
NoOwner == [given |-> FALSE, pw |-> <<>>]
Owner(pw) == [given |-> TRUE, pw |-> pw]

---------------------------------------------------------------------------
(* encrypt_pdf: [outcome, fs].  outcome is "ok", "PasswordError" or        *)
(* "Exception".  pikepdf.Pdf.open is given no password, so a file that is  *)
(* already encrypted raises PasswordError (line 140); a file that is no    *)
(* PDF raises on open; pdf.save refuses the path the Pdf was opened from   *)
(* (allow_overwriting_input is not set); a save that fails half way leaves *)
(* a truncated file at out_path.                                           *)

\* encrypt_pdf truncating its input when the save fails half way.
encrypt_pdf_Truncating(fs, in_path, out_path, user_password, owner_password) ==
    LET owner_pw == IF owner_password.given THEN owner_password.pw ELSE user_password
        doc == ReadPath(fs, in_path)
    IN  IF doc.k \in {"locked", "enc"}
        THEN [outcome |-> "PasswordError", fs |-> fs]
        ELSE IF doc.k \in {"corrupt", "partial"}
        THEN [outcome |-> "Exception", fs |-> fs]
        ELSE IF NormPath(out_path) = NormPath(in_path)
        THEN [outcome |-> "Exception", fs |-> fs]
        ELSE IF doc.k = "unsavable"
        THEN [outcome |-> "Exception", fs |-> WritePath(fs, in_path, Partial)]
        ELSE [outcome |-> "ok",
              fs |-> WritePath(fs, out_path, Encrypted(doc.src, user_password, owner_pw))]

\* encrypt_pdf saving over the file it reads when out_path is that file.
encrypt_pdf_Overwriting(fs, in_path, out_path, user_password, owner_password) ==
    LET owner_pw == IF owner_password.given THEN owner_password.pw ELSE user_password
        doc == ReadPath(fs, in_path)
    IN  IF doc.k \in {"locked", "enc"}
        THEN [outcome |-> "PasswordError", fs |-> fs]
        ELSE IF doc.k \in {"corrupt", "partial"}
        THEN [outcome |-> "Exception", fs |-> fs]
        ELSE IF doc.k = "unsavable"
        THEN [outcome |-> "Exception", fs |-> WritePath(fs, out_path, Partial)]
        ELSE [outcome |-> "ok",
              fs |-> WritePath(fs, out_path, Encrypted(doc.src, user_password, owner_pw))]

encrypt_pdf(fs, in_path, out_path, user_password, owner_password) ==
    LET owner_pw == IF owner_password.given THEN owner_password.pw ELSE user_password
        doc == ReadPath(fs, in_path)
    IN  IF doc.k \in {"locked", "enc"}
        THEN [outcome |-> "PasswordError", fs |-> fs]
        ELSE IF doc.k \in {"corrupt", "partial"}
        THEN [outcome |-> "Exception", fs |-> fs]
        ELSE IF NormPath(out_path) = NormPath(in_path)
        THEN [outcome |-> "Exception", fs |-> fs]
        ELSE IF doc.k = "unsavable"
        THEN [outcome |-> "Exception", fs |-> WritePath(fs, out_path, Partial)]
        ELSE [outcome |-> "ok",
              fs |-> WritePath(fs, out_path, Encrypted(doc.src, user_password, owner_pw))]

\* safe_replace: os.replace(src_tmp, dst_final) inside the working directory
safe_replace(dir, src_tmp, dst_final) ==
    RemoveEntry(WriteFile(dir, dst_final, EntryOf(dir, src_tmp).content), src_tmp)

\* tmp_path = in_pdf + ".tmp_encrypt"
TmpPath(name) == <<name \o TmpSuffix>>

\* OutPath joining the working directory instead of outdir.
OutPathInCwd(outdir, name) == <<Dot, name>>

\* out_path = os.path.join(outdir, os.path.basename(in_pdf)), outdir being
\* os.path.join(cwd, args.outdir)
OutPath(outdir, name) == <<outdir, name>>

\* os.makedirs(outdir, exist_ok=True): [raised, dir]
makedirs(dir, outdir) ==
    LET q == NormPath(<<outdir>>)
    IN  IF q = <<>> THEN [raised |-> FALSE, dir |-> dir]
        ELSE IF ~HasEntry(dir, outdir)
        THEN [raised |-> FALSE,
              dir |-> Append(dir, [name |-> outdir, kind |-> "dir", content |-> NoContent])]
        ELSE IF EntryOf(dir, outdir).kind = "dir"
        THEN [raised |-> FALSE, dir |-> dir]
        ELSE [raised |-> TRUE, dir |-> dir]

---------------------------------------------------------------------------
(* Inputs of a run.                                                        *)

MaxRows == 2      \* data rows of a spreadsheet
MaxRuns == 2      \* successive runs of the tool on the same directory

Name_a == <<"a">>
Name_b == <<"b">>
Name_a_pdf == <<"a",".","p","d","f">>
Name_a_PDF == <<"a",".","P","D","F">>
Name_A_pdf == <<"A",".","p","d","f">>
Name_A_PDF == <<"A",".","P","D","F">>
Name_B_PDF == <<"B",".","P","D","F">>
Protected == <<"p","r","o","t","e","c","t","e","d">>
Pw1 == <<"s","1">>
Pw2 == <<"s","2">>

File(name, content) == [name |-> name, kind |-> "file", content |-> content]
Folder(name) == [name |-> name, kind |-> "dir", content |-> NoContent]

\* Working directories the runs start from.
Dirs ==
    { <<File(Name_a_pdf, Plain("d1")), File(Name_B_PDF, Locked)>>,
      <<File(Name_A_pdf, Unsavable), File(Name_a_PDF, Plain("d2")),
        File(Name_B_PDF, Corrupt)>>,
      <<Folder(Name_a_pdf), File(Name_A_PDF, Plain("d2")), File(Name_B_PDF, Plain("d3"))>> }

HeaderRows ==
    { <<>>,
      << <<Text(<<"F","i","l","e","n","a","m","e">>), Text(<<"p","a","s","s","w","o","r","d">>)>> >>,
      << <<Text(<<" ","P","W","D">>), Text(<<"u6587","u4ef6","u540d">>)>> >> }

DataRows ==
    { <<Text(Name_a), Text(Pw1)>>,
      <<Text(Name_a_PDF), Text(Pw1)>>,
      <<Text(<<" ","a"," ">>), Num(42)>>,
      <<Text(Name_b), Text(Pw2)>>,
      <<Text(Pw1), Text(Name_a_pdf)>>,
      <<Text(Name_a), NoneCell>>,
      <<Text(<<" ">>), Text(Pw1)>>,
      <<Text(Name_b)>> }

SeqsUpTo(S, n) == UNION {[1..k -> S] : k \in 0..n}

Sheets == {h \o d : h \in HeaderRows, d \in SeqsUpTo(DataRows, MaxRows)}

ExcelInputs ==
    {[exists |-> FALSE, state |-> "ok", rows |-> <<>>],
     [exists |-> TRUE, state |-> "unreadable", rows |-> <<>>],
     [exists |-> TRUE, state |-> "nosheet", rows |-> <<>>]}
    \cup {[exists |-> TRUE, state |-> "ok", rows |-> r] : r \in Sheets}

OutdirArgs == {Protected, Dot, Name_a_pdf}
OwnerArgs == {NoOwner, Owner(<<"o">>)}

\* --outdir is ignored with --inplace (line 166): it is left at its default.
ArgInputs ==
    {[inplace |-> TRUE, outdir |-> Protected, owner |-> o] : o \in OwnerArgs}
    \cup {[inplace |-> FALSE, outdir |-> d, owner |-> o] : d \in OutdirArgs, o \in OwnerArgs}

NoExit == -1
NoSummary == [total |-> -1, ok |-> -1, skipped |-> -1, failed |-> -1]
NoPrev == [valid |-> FALSE, summary |-> NoSummary, exitStatus |-> NoExit, out |-> {}]
Idle == <<>>

---------------------------------------------------------------------------
(* main                                                                    *)

Init ==
    /\ pc = "start"
    /\ excel \in ExcelInputs
    /\ args \in ArgInputs
    /\ cwdfs \in Dirs
    /\ outfs = <<>>
    /\ mapping = <<>>
    /\ idx = 0
    /\ total = 0 /\ ok = 0 /\ skipped = 0 /\ failed = 0
    /\ in_pdf = NotFound
    /\ exitStatus = NoExit
    /\ summary = NoSummary
    /\ run = 1
    /\ hist = [pre |-> cwdfs, entry |-> cwdfs, log |-> <<>>, prev |-> NoPrev]
    /\ arg = Idle /\ ret = Idle

Exit(status) == exitStatus' = status /\ pc' = "done"

\* lines 173-185: the fatal preconditions
LoadExcel ==
    /\ pc = "start"
    /\ IF ~excel.exists
       THEN Exit(2) /\ UNCHANGED mapping
       ELSE LET r == load_mapping_from_excel(excel)
            IN  IF r.raised THEN Exit(2) /\ UNCHANGED mapping
                ELSE IF r.mapping = <<>> THEN Exit(2) /\ UNCHANGED mapping
                ELSE mapping' = r.mapping /\ pc' = "prepare" /\ UNCHANGED exitStatus
    /\ UNCHANGED <<excel, args, cwdfs, outfs, idx, total, ok, skipped, failed,
                   in_pdf, summary, run, hist, arg, ret>>

\* lines 187-194: the output directory and the counters.  An exception of
\* os.makedirs is caught nowhere: the interpreter prints the traceback and
\* exits with status 1.
Prepare ==
    /\ pc = "prepare"
    /\ LET r == IF args.inplace THEN [raised |-> FALSE, dir |-> cwdfs]
                ELSE makedirs(cwdfs, args.outdir)
       IN  /\ cwdfs' = r.dir
           /\ IF r.raised THEN Exit(1)
              ELSE pc' = "loop" /\ UNCHANGED exitStatus
    /\ total' = 0 /\ ok' = 0 /\ skipped' = 0 /\ failed' = 0
    /\ UNCHANGED <<excel, args, outfs, mapping, idx, in_pdf, summary, run, hist,
                   arg, ret>>

\* One line of the bookkeeping per entry the loop has finished: the declared
\* name and password, the resolved file and its content when the entry was
\* taken, the outcome, the exception behind a failure, and the path and
\* content encrypt_pdf wrote.
Logged(resolved, result, why, out, content) ==
    [hist EXCEPT !.log = Append(@,
        [name |-> mapping[idx + 1].name,
         password |-> mapping[idx + 1].password,
         file |-> resolved.name,
         input |-> IF resolved.found THEN EntryOf(hist.entry, resolved.name).content
                   ELSE NoContent,
         result |-> result, why |-> why, out |-> out, content |-> content])]

\* lines 196-202: the next entry of the dict and its resolution
NextEntry ==
    /\ pc = "loop"
    /\ idx < Len(mapping)
    /\ total' = total + 1
    /\ LET r == resolve_pdf_path(cwdfs, mapping[idx + 1].name)
       IN  /\ in_pdf' = r
           /\ IF ~r.found
              THEN /\ skipped' = skipped + 1
                   /\ idx' = idx + 1
                   /\ hist' = Logged(r, "skipped", "", <<>>, NoContent)
                   /\ UNCHANGED pc
              ELSE /\ pc' = "encrypt"
                   /\ hist' = [hist EXCEPT !.entry = cwdfs]
                   /\ UNCHANGED <<skipped, idx>>
    /\ UNCHANGED <<excel, args, cwdfs, outfs, mapping, ok, failed, exitStatus,
                   summary, run, arg, ret>>

\* Caught without the second except clause.
CaughtPasswordErrorOnly(outcome) == outcome = "PasswordError"

\* The except clauses of lines 216-221: PasswordError, then every Exception.
Caught(outcome) == outcome \in {"PasswordError", "Exception"}

\* What encrypt_pdf left at a path, NoContent if nothing is there.
Written(fs, p) ==
    LET q == NormPath(p)
        dir == IF Len(q) = 1 THEN fs.cwd ELSE fs.out
    IN  IF HasEntry(dir, q[Len(q)]) THEN EntryOf(dir, q[Len(q)]).content ELSE NoContent

\* lines 204-207 and 210-221: the call of encrypt_pdf and its handlers.
\* out_name is the file name the output path is built on.
EncryptAs(out_name) ==
    /\ pc = "encrypt"
    /\ LET e == mapping[idx + 1]
           out_path == IF args.inplace THEN TmpPath(out_name)
                       ELSE OutPath(args.outdir, out_name)
           r == encrypt_pdf([cwd |-> cwdfs, out |-> outfs], <<in_pdf.name>>,
                            out_path, e.password, args.owner)
       IN  /\ cwdfs' = r.fs.cwd
           /\ outfs' = r.fs.out
           /\ IF r.outcome # "ok"
              THEN IF Caught(r.outcome)
                   THEN /\ failed' = failed + 1
                        /\ idx' = idx + 1
                        /\ pc' = "loop"
                        /\ hist' = Logged(in_pdf, "failed", r.outcome, out_path,
                                          Written(r.fs, out_path))
                        /\ UNCHANGED <<ok, exitStatus>>
                   ELSE /\ Exit(1)
                        /\ UNCHANGED <<ok, failed, idx, hist>>
              ELSE IF args.inplace
              THEN /\ pc' = "replace"
                   /\ UNCHANGED <<ok, failed, idx, hist, exitStatus>>
              ELSE /\ ok' = ok + 1
                   /\ idx' = idx + 1
                   /\ pc' = "loop"
                   /\ hist' = Logged(in_pdf, "ok", "", out_path, Written(r.fs, out_path))
                   /\ UNCHANGED <<failed, exitStatus>>
    /\ UNCHANGED <<excel, args, mapping, total, skipped, in_pdf, summary, run, arg, ret>>

\* Encrypt building the output path on the declared name.
EncryptDeclaredName == EncryptAs(mapping[idx + 1].name)

\* tmp_path = in_pdf + ".tmp_encrypt" (line 206);
\* out_path = os.path.join(outdir, os.path.basename(in_pdf)) (line 211)
Encrypt == EncryptAs(in_pdf.name)

\* lines 208-209 and 214: the rename succeeds
Replace ==
    /\ pc = "replace"
    /\ HasEntry(cwdfs, TmpPath(in_pdf.name)[1])
    /\ cwdfs' = safe_replace(cwdfs, TmpPath(in_pdf.name)[1], in_pdf.name)
    /\ ok' = ok + 1
    /\ idx' = idx + 1
    /\ pc' = "loop"
    /\ hist' = Logged(in_pdf, "ok", "", <<in_pdf.name>>,
                      Written([cwd |-> cwdfs', out |-> outfs], <<in_pdf.name>>))
    /\ UNCHANGED <<excel, args, outfs, mapping, total, skipped, failed, in_pdf,
                   exitStatus, summary, run, arg, ret>>

\* lines 208 and 219-221: os.replace raises OSError (the target is in use,
\* the directory is read-only), which the handler counts as a failure
ReplaceFails ==
    /\ pc = "replace"
    /\ failed' = failed + 1
    /\ idx' = idx + 1
    /\ pc' = "loop"
    /\ hist' = Logged(in_pdf, "failed", "OSError", TmpPath(in_pdf.name),
                      Written([cwd |-> cwdfs, out |-> outfs], TmpPath(in_pdf.name)))
    /\ UNCHANGED <<excel, args, cwdfs, outfs, mapping, total, ok, skipped, in_pdf,
                   exitStatus, summary, run, arg, ret>>

\* ExitCode ignoring the failures.
ExitCodeZero(f) == 0

\* sys.exit(0 if failed == 0 else 1)
ExitCode(f) == IF f = 0 THEN 0 ELSE 1

\* lines 223-230: the summary and the exit status
Summary ==
    /\ pc = "loop"
    /\ idx = Len(mapping)
    /\ summary' = [total |-> total, ok |-> ok, skipped |-> skipped, failed |-> failed]
    /\ Exit(ExitCode(failed))
    /\ UNCHANGED <<excel, args, cwdfs, outfs, mapping, idx, total, ok, skipped,
                   failed, in_pdf, run, hist, arg, ret>>

\* The files of the directory --outdir designates, with their contents.
OutputDirectory ==
    LET dir == IF NormPath(<<args.outdir>>) = <<>> THEN cwdfs ELSE outfs
    IN  {dir[i] : i \in 1..Len(dir)}

\* The tool is started again with the same command line, on the files the
\* previous run left.
Rerun ==
    /\ pc = "done"
    /\ run < MaxRuns
    /\ run' = run + 1
    /\ pc' = "start"
    /\ mapping' = <<>>
    /\ idx' = 0
    /\ total' = 0 /\ ok' = 0 /\ skipped' = 0 /\ failed' = 0
    /\ in_pdf' = NotFound
    /\ exitStatus' = NoExit
    /\ summary' = NoSummary
    /\ hist' = [pre |-> cwdfs, entry |-> cwdfs, log |-> <<>>,
                prev |-> [valid |-> TRUE, summary |-> summary,
                          exitStatus |-> exitStatus, out |-> OutputDirectory]]
    /\ UNCHANGED <<excel, args, cwdfs, outfs, arg, ret>>

Next ==
    \/ LoadExcel
    \/ Prepare
    \/ NextEntry
    \/ Encrypt
    \/ Replace
    \/ ReplaceFails
    \/ Summary
    \/ Rerun

Spec == Init /\ [][Next]_vars

\* The steps of the for loop and of what follows it.
LoopStep == NextEntry \/ Encrypt \/ Replace \/ ReplaceFails \/ Summary

\* The runs on a spreadsheet without header whose rows declare a file that
\* is encrypted, one that may be locked or damaged, and one that is not there.
FairRows ==
    { <<Text(Name_a), Text(Pw1)>>,
      <<Text(Name_b), Text(Pw2)>>,
      <<Text(Pw1), Text(Name_a_pdf)>> }

FairInit ==
    /\ Init
    /\ excel.exists /\ excel.state = "ok"
    /\ excel.rows \in SeqsUpTo(FairRows, MaxRows)
    /\ args.owner = NoOwner

\* The interpreter runs the loop to its end: no step of it waits for anything.
FairSpec == FairInit /\ [][Next]_vars /\ WF_vars(LoopStep)

---------------------------------------------------------------------------
(* detect_columns and resolve_pdf_path on their own: the argument is drawn *)
(* in the initial state and one step applies the function.                 *)

MaxCols == 3      \* cells of a first row
MaxEntries == 3   \* entries of a listed directory

\* The variables of main, which these specifications leave alone.
MainIdle ==
    /\ excel = Idle /\ args = Idle /\ outfs = Idle /\ mapping = Idle
    /\ idx = 0 /\ total = 0 /\ ok = 0 /\ skipped = 0 /\ failed = 0
    /\ in_pdf = NotFound /\ exitStatus = NoExit /\ summary = NoSummary
    /\ run = 1 /\ hist = Idle

HeaderCells ==
    { NoneCell, Num(7),
      Text(<<"F","i","l","e","N","a","m","e">>),
      Text(<<" ","p","d","f","\t">>),
      Text(<<"P","W","D">>),
      Text(<<"u5bc6","u7801"," ">>),
      Text(<<"p","a","s","s","w","o","r","d","s">>) }

FirstRows == UNION {[1..k -> HeaderCells] : k \in 1..MaxCols}

InitCols ==
    /\ pc = "call"
    /\ arg \in FirstRows
    /\ ret = Idle
    /\ cwdfs = Idle
    /\ MainIdle

DetectColumns ==
    /\ pc = "call"
    /\ ret' = detect_columns(arg)
    /\ pc' = "return"
    /\ UNCHANGED <<excel, args, cwdfs, outfs, mapping, idx, total, ok, skipped,
                   failed, in_pdf, exitStatus, summary, run, hist, arg>>

SpecCols == InitCols /\ [][DetectColumns]_vars

ListedNames == {Name_a_pdf, Name_A_PDF, Name_A_pdf, Name_a, <<"a","b",".","p","d","f">>}

DeclaredNames ==
    { Name_a, <<" ","a"," ">>, <<"A">>, Name_a_pdf, Name_A_PDF,
      <<"a",".","P","d","f"," ">>,
      <<"a","b">>, <<"a",".","p","d">>, <<>> }

ListedEntries == {[name |-> n, kind |-> k, content |-> NoContent] :
                    n \in ListedNames, k \in {"file", "dir"}}

\* Listings of at most MaxEntries entries, no name twice.
Listings ==
    {d \in SeqsUpTo(ListedEntries, MaxEntries) :
        \A i, j \in 1..Len(d) : i # j => d[i].name # d[j].name}

InitResolve ==
    /\ pc = "call"
    /\ cwdfs \in Listings
    /\ arg \in DeclaredNames
    /\ ret = Idle
    /\ MainIdle

ResolvePdfPath ==
    /\ pc = "call"
    /\ ret' = resolve_pdf_path(cwdfs, arg)
    /\ pc' = "return"
    /\ UNCHANGED <<excel, args, cwdfs, outfs, mapping, idx, total, ok, skipped,
                   failed, in_pdf, exitStatus, summary, run, hist, arg>>

SpecResolve == InitResolve /\ [][ResolvePdfPath]_vars

---------------------------------------------------------------------------
(* Properties of detect_columns (SpecCols)                                 *)

\* The 0-based indices of the cells of a row that, trimmed and lowercased,
\* are one of the aliases.
AliasCells(row, aliases) ==
    {i \in 0..(Len(row) - 1) : row[i + 1].t # "none" /\ norm(row[i + 1]) \in aliases}

\* C6: if a cell of the first row is a filename or password alias, the row
\* is a header, the filename column is the index of a filename-alias cell
\* (0 if there is none) and the password column the index of a
\* password-alias cell (1 if there is none), whatever the column order; if
\* no cell is an alias the row is data and the columns are 0 and 1.
C6_ColumnDetection ==
    pc = "return" =>
        LET fnHits == AliasCells(arg, FilenameAliases)
            pwHits == AliasCells(arg, PasswordAliases)
        IN  IF fnHits \cup pwHits # {}
            THEN /\ ret.has_header
                 /\ IF fnHits # {} THEN ret.fn_col \in fnHits ELSE ret.fn_col = 0
                 /\ IF pwHits # {} THEN ret.pw_col \in pwHits ELSE ret.pw_col = 1
            ELSE ret = [fn_col |-> 0, pw_col |-> 1, has_header |-> FALSE]

\* A header in swapped order, password first, with untrimmed mixed-case cells.
C6_Witness ==
    /\ pc = "return"
    /\ Len(arg) = 3
    /\ ret = [fn_col |-> 2, pw_col |-> 0, has_header |-> TRUE]
    /\ arg[3] = Text(<<" ","p","d","f","\t">>)

---------------------------------------------------------------------------
(* Properties of resolve_pdf_path (SpecResolve)                            *)

\* The candidate base name of a declared name.
BaseName(declared) ==
    LET t == strip(declared)
    IN  IF Len(t) >= 4 /\ lower(SubSeq(t, Len(t) - 3, Len(t))) = DotPdf
        THEN t ELSE t \o DotPdf

\* Listing positions of the regular files whose name satisfies P.
RegularFiles(dir, P(_)) == {i \in 1..Len(dir) : dir[i].kind = "file" /\ P(dir[i].name)}

\* C5: resolve_pdf_path returns the exact-case regular file dir/base when it
\* exists; otherwise the first regular file, in listing order, whose
\* lowercased name is base lowercased; and "not found" exactly when no
\* regular file has that lowercased name.
C5_Resolution ==
    pc = "return" =>
        LET base == BaseName(arg)
            exact == RegularFiles(cwdfs, LAMBDA n : n = base)
            fuzzy == RegularFiles(cwdfs, LAMBDA n : lower(n) = lower(base))
        IN  /\ exact # {} => ret = Found(base)
            /\ (exact = {} /\ fuzzy # {}) =>
                  /\ ret.found
                  /\ \E i \in fuzzy : /\ ret.name = cwdfs[i].name
                                      /\ \A j \in fuzzy : i <= j
            /\ ~ret.found <=> fuzzy = {}

\* The exact-case name is a directory and two regular files match without
\* regard to case: the first listed one is returned.
C5_Witness ==
    /\ pc = "return"
    /\ arg = <<" ","a"," ">>
    /\ Len(cwdfs) = 3
    /\ cwdfs[1].name = Name_a_pdf /\ cwdfs[1].kind = "dir"
    /\ cwdfs[2].name = Name_A_PDF /\ cwdfs[2].kind = "file"
    /\ cwdfs[3].name = Name_A_pdf /\ cwdfs[3].kind = "file"
    /\ ret = Found(Name_A_PDF)

---------------------------------------------------------------------------
(* Properties of main (Spec)                                               *)

SummaryPrinted == pc = "done" /\ summary # NoSummary

\* The loop is running or has run to its end.
InLoop == pc \in {"loop", "encrypt", "replace"} \/ SummaryPrinted

\* C10: within a run the counters never decrease; after every completed
\* iteration total = succeeded + skipped + failed (the entry being processed
\* is counted in total alone); the summary's total is the number of mapping
\* entries; and when every entry's encryption fails the summary reports
\* failed = total and the exit status is 1.
C10_CountersState ==
    /\ pc = "loop" => total = ok + skipped + failed
    /\ pc \in {"encrypt", "replace"} => total = ok + skipped + failed + 1
    /\ SummaryPrinted =>
          /\ summary.total = Len(mapping)
          /\ summary.total = summary.ok + summary.skipped + summary.failed
          /\ summary = [total |-> total, ok |-> ok, skipped |-> skipped,
                        failed |-> failed]
          /\ (\A i \in 1..Len(hist.log) : hist.log[i].result = "failed") =>
                (summary.failed = summary.total /\ exitStatus = 1)

C10_CountersStep ==
    run' = run =>
        /\ total' \in {total, total + 1}
        /\ ok' \in {ok, ok + 1}
        /\ skipped' \in {skipped, skipped + 1}
        /\ failed' \in {failed, failed + 1}
        /\ (ok' - ok) + (skipped' - skipped) + (failed' - failed) <= 1

\* C10, in every state and in every step: the counters only increase and
\* each entry is counted in total and in exactly one of ok, skipped, failed.
C10_Counters == []C10_CountersState /\ [][C10_CountersStep]_vars

\* Two entries, both resolved, both failed in encrypt_pdf.
C10_Witness ==
    /\ SummaryPrinted
    /\ summary = [total |-> 2, ok |-> 0, skipped |-> 0, failed |-> 2]
    /\ hist.log[1].why = "Exception" /\ hist.log[2].why = "Exception"
    /\ exitStatus = 1

\* The data rows of the sheet, the columns detect_columns gives them, and
\* the rows that declare both a filename and a password.
DataOf(x) ==
    LET cols == detect_columns(x.rows[1])
    IN  [rows |-> IF cols.has_header THEN Tail(x.rows) ELSE x.rows,
         fn |-> cols.fn_col, pw |-> cols.pw_col]

\* The text of a cell of a row: empty for a cell that is absent, out of
\* range or None.
CellText(r, col) ==
    IF col + 1 > Len(r) THEN <<>>
    ELSE IF r[col + 1].t = "none" THEN <<>>
    ELSE str(r[col + 1])

\* s without its leading and trailing whitespace, by positions.
Trimmed(s) ==
    LET solid == {i \in 1..Len(s) : s[i] \notin Whitespace}
    IN  IF solid = {} THEN <<>>
        ELSE SubSeq(s, CHOOSE i \in solid : \A j \in solid : i <= j,
                       CHOOSE i \in solid : \A j \in solid : j <= i)

ValidRows(d) ==
    {i \in 1..Len(d.rows) : /\ Trimmed(CellText(d.rows[i], d.fn)) # <<>>
                            /\ Trimmed(CellText(d.rows[i], d.pw)) # <<>>}

DeclaredKeys(d) == {Trimmed(CellText(d.rows[i], d.fn)) : i \in ValidRows(d)}

SheetLoads == excel.exists /\ excel.state = "ok" /\ excel.rows # <<>>

\* The fatal preconditions of the claim C3.
Fatal == ~SheetLoads \/ DeclaredKeys(DataOf(excel)) = {}

\* C3: the exit status is 2 exactly when a fatal precondition fails (no
\* spreadsheet, unreadable spreadsheet or absent sheet, no rows, no valid
\* entry), otherwise 1 exactly when an entry was counted as failed,
\* otherwise 0; skipped entries never make it nonzero.
C3_ExitStatus ==
    pc = "done" =>
        exitStatus = (IF Fatal THEN 2 ELSE IF failed >= 1 THEN 1 ELSE 0)

\* C7: every entry of the mapping has a non-empty trimmed filename and a
\* non-empty trimmed password; the keys are exactly the trimmed filenames of
\* the rows that declare both, so a row with an absent or blank cell adds no
\* entry, is no error and is counted nowhere; the password of a key is that
\* of the last row declaring it.
C7_Mapping ==
    (pc # "start" /\ SheetLoads) =>
        LET d == DataOf(excel)
            keys == DeclaredKeys(d)
        IN  /\ (pc = "done" /\ exitStatus = 2) <=> keys = {}
            /\ exitStatus # 2 =>
                /\ \A i \in 1..Len(mapping) :
                      /\ mapping[i].name # <<>> /\ mapping[i].password # <<>>
                      /\ Trimmed(mapping[i].name) = mapping[i].name
                      /\ Trimmed(mapping[i].password) = mapping[i].password
                /\ {mapping[i].name : i \in 1..Len(mapping)} = keys
                /\ Len(mapping) = Cardinality(keys)
                /\ \A i \in 1..Len(mapping) :
                      LET rowsOf == {j \in ValidRows(d) :
                                        Trimmed(CellText(d.rows[j], d.fn)) = mapping[i].name}
                          last == CHOOSE j \in rowsOf : \A k \in rowsOf : k <= j
                      IN  mapping[i].password = Trimmed(CellText(d.rows[last], d.pw))
                /\ \A i \in 1..Len(hist.log) : hist.log[i].name \in keys
                /\ SummaryPrinted =>
                      /\ summary.total = Cardinality(keys)
                      /\ summary.ok + summary.skipped + summary.failed = Cardinality(keys)

\* A header, a row declaring "a" with a password and a later row declaring
\* "a" without one: one entry, with the password of the first row, counted
\* once.
C7_Witness ==
    /\ SummaryPrinted
    /\ Len(excel.rows) = 3
    /\ detect_columns(excel.rows[1]).has_header
    /\ excel.rows[2] = <<Text(Name_a), Text(Pw1)>>
    /\ excel.rows[3] = <<Text(Name_a), NoneCell>>
    /\ mapping = <<[name |-> Name_a, password |-> Pw1]>>
    /\ summary.total = 1


\* The content of the file `name` of a directory.
ContentOf(dir, name) == EntryOf(dir, name).content

\* The files the resolver can match: regular files named *.pdf in any case.
Originals(dir) ==
    {dir[i].name : i \in RegularFiles(dir, LAMBDA n : endswith(lower(n), DotPdf))}

\* The loop has just finished an entry: its line of the bookkeeping.
EntryDone == pc = "loop" /\ idx > 0 /\ Len(hist.log) = idx
LastEntry == hist.log[idx]

\* encrypt_pdf raised for the entry just finished.
EncryptionFailed ==
    /\ EntryDone
    /\ LastEntry.result = "failed"
    /\ LastEntry.why \in {"PasswordError", "Exception"}

\* In-place mode: an original changes only in the step that renames the
\* temporary file over it, and that step is taken only once encrypt_pdf has
\* returned, the temporary file holding the encrypted document.
C1_OnlyByRename ==
    args.inplace =>
        \A f \in Originals(cwdfs) :
            (~HasEntry(cwdfs', f) \/ ContentOf(cwdfs', f) # ContentOf(cwdfs, f)) =>
                /\ pc = "replace" /\ pc' = "loop" /\ ok' = ok + 1
                /\ f = in_pdf.name
                /\ HasEntry(cwdfs', f)
                /\ ContentOf(cwdfs', f) = ContentOf(cwdfs, TmpPath(f)[1])
                /\ ContentOf(cwdfs', f).k = "enc"

\* The claim C1 as stated: in in-place mode, when encrypting an entry to the
\* temporary file fails, the original is as it was before the run started.
C1_AsBeforeTheRun ==
    (args.inplace /\ EncryptionFailed) =>
        ContentOf(cwdfs, LastEntry.file) = ContentOf(hist.pre, LastEntry.file)

\* C1 as stated: after a failed encryption the original is as before the
\* run, and an original changes only through the rename.
C1_Original == []C1_AsBeforeTheRun /\ [][C1_OnlyByRename]_vars

\* In in-place mode, when encrypting an entry to the temporary file fails,
\* or while the rename is still to come, the original is as it was when the
\* entry was taken.
C1_AsBeforeTheEntry ==
    /\ (args.inplace /\ EncryptionFailed) =>
          /\ ContentOf(cwdfs, LastEntry.file) = LastEntry.input
          /\ ContentOf(cwdfs, LastEntry.file) = ContentOf(hist.entry, LastEntry.file)
    /\ (args.inplace /\ pc = "replace") =>
          ContentOf(cwdfs, in_pdf.name) = ContentOf(hist.entry, in_pdf.name)

\* C1 (amended): in in-place mode, when encrypting an entry to the temporary
\* file fails, the original is as it was when the entry was taken (which is
\* its content before the run unless an earlier entry of the run has already
\* replaced it); an original changes only through the rename, after
\* encrypt_pdf has returned.
C1_InPlace == []C1_AsBeforeTheEntry /\ [][C1_OnlyByRename]_vars

\* The save to the temporary file failed half way: a truncated temporary
\* file is left and the original is untouched.
C1_Witness ==
    /\ args.inplace
    /\ EncryptionFailed
    /\ LastEntry.why = "Exception"
    /\ LastEntry.content = Partial
    /\ LastEntry.out = TmpPath(LastEntry.file)
    /\ ContentOf(cwdfs, LastEntry.file) = Unsavable

\* The regular files of a directory with their contents.
FilesOf(dir) == {dir[i] : i \in RegularFiles(dir, LAMBDA n : TRUE)}

\* --outdir designates the working directory itself.
OutdirIsCwd == NormPath(<<args.outdir>>) = <<>>

\* Every output path encrypt_pdf was given is another file than its input.
OutputsApart ==
    InLoop =>
        \A i \in 1..Len(hist.log) :
            hist.log[i].out # <<>> => NormPath(hist.log[i].out) # <<hist.log[i].file>>

\* No step changes a regular file of the working directory, adds one or
\* removes one.
CwdUntouched == FilesOf(cwdfs') = FilesOf(cwdfs)

\* Every entry whose output path is its input was counted as failed, its
\* file left as it was: encrypt_pdf could not open it or refused to save
\* over it.
SamePathRefused ==
    InLoop =>
        \A i \in 1..Len(hist.log) :
            (hist.log[i].out # <<>> /\ NormPath(hist.log[i].out) = <<hist.log[i].file>>) =>
                /\ hist.log[i].result = "failed"
                /\ hist.log[i].why \in {"PasswordError", "Exception"}
                /\ hist.log[i].content = hist.log[i].input

\* The claim C2 as stated, for every value of --outdir.
C2_Original ==
    /\ [](~args.inplace => OutputsApart)
    /\ [][~args.inplace => CwdUntouched]_vars

\* C2 (amended): in output-directory mode, for every value of --outdir, no
\* regular file of the working directory is written, replaced, added or
\* removed; the output path is another file than the resolved input for
\* every --outdir that does not designate the working directory itself, and
\* when it does, encrypt_pdf raises (it cannot open its input or refuses to
\* save over it) and the entry is counted as failed.
C2_OutputDirectory ==
    /\ []((~args.inplace /\ ~OutdirIsCwd) => OutputsApart)
    /\ []((~args.inplace /\ OutdirIsCwd) => SamePathRefused)
    /\ [][~args.inplace => CwdUntouched]_vars

\* Two entries encrypted into protected/, the originals as before the run.
C2_Witness ==
    /\ SummaryPrinted
    /\ ~args.inplace /\ args.outdir = Protected
    /\ summary.ok = 2
    /\ Len(outfs) = 2
    /\ FilesOf(cwdfs) = FilesOf(hist.pre)

\* C9: a second run in output-directory mode on the same spreadsheet,
\* directory and options leaves the output directory with the files and
\* contents the first run left, and reports the same counts.
C9_Idempotent ==
    (pc = "done" /\ ~args.inplace /\ hist.prev.valid) =>
        /\ OutputDirectory = hist.prev.out
        /\ summary = hist.prev.summary
        /\ exitStatus = hist.prev.exitStatus

\* A second run that encrypted one file again and failed on another one
\* again, leaving a truncated output.
C9_Witness ==
    /\ SummaryPrinted
    /\ run = 2 /\ hist.prev.valid
    /\ ~args.inplace /\ args.outdir = Protected
    /\ summary = [total |-> 2, ok |-> 1, skipped |-> 0, failed |-> 1]
    /\ \E i \in 1..Len(outfs) : outfs[i].content = Partial
    /\ \E i \in 1..Len(outfs) : outfs[i].content.k = "enc"


\* short is a declared name without extension and long the same name with
\* the extension ".pdf" in some letter case.
SpellingPair(short, long) ==
    /\ ~endswith(lower(short), DotPdf)
    /\ Len(long) = Len(short) + Len(DotPdf)
    /\ SubSeq(long, 1, Len(short)) = short
    /\ lower(SubSeq(long, Len(short) + 1, Len(long))) = DotPdf

\* Two entries of the run that spell the same physical file both ways, with
\* the same password, neither stopped by a failing rename.
SameFileTwice(i, j) ==
    /\ SpellingPair(hist.log[i].name, hist.log[j].name)
    /\ hist.log[i].file # <<>>
    /\ hist.log[i].file = hist.log[j].file
    /\ hist.log[i].password = hist.log[j].password
    /\ hist.log[i].why # "OSError" /\ hist.log[j].why # "OSError"

SameResult(i, j) ==
    /\ hist.log[i].result = hist.log[j].result
    /\ hist.log[i].why = hist.log[j].why
    /\ hist.log[i].out = hist.log[j].out
    /\ hist.log[i].content = hist.log[j].content

---------------------------------------------------------------------------
(* The batch loop (Spec and FairSpec)                                      *)

\* The entries are taken one by one in the order of the dict.
InMappingOrder ==
    InLoop =>
        /\ Len(hist.log) = idx
        /\ idx <= Len(mapping)
        /\ \A i \in 1..Len(hist.log) : hist.log[i].name = mapping[i].name
        /\ SummaryPrinted => idx = Len(mapping)

\* The loop is left only by printing the summary.
LeftBySummary ==
    (pc \in {"loop", "encrypt", "replace"} /\ pc' \notin {"loop", "encrypt", "replace"})
        => SummaryPrinted'

\* C4: once the mapping has loaded with at least one entry, the run ends
\* only by the summary, every entry of the mapping processed exactly once in
\* the order of the mapping.
C4_Original ==
    (pc = "done" /\ mapping # <<>>) =>
        /\ SummaryPrinted
        /\ Len(hist.log) = Len(mapping)
        /\ \A i \in 1..Len(hist.log) : hist.log[i].name = mapping[i].name

\* From the for statement of line 196 on, no per-entry outcome (unresolved
\* file, PasswordError, any other exception of encrypt_pdf or of the rename)
\* stops the loop: every entry is processed exactly once, in the order of
\* the mapping, and the run reaches the summary and exits.
C4_BatchCompletes ==
    /\ []InMappingOrder
    /\ [][LeftBySummary]_vars
    /\ (pc = "loop") ~> SummaryPrinted

\* A run whose first entry failed with PasswordError and whose second
\* entry failed in the rename, and which printed its summary.
C4_Witness ==
    /\ SummaryPrinted
    /\ args.inplace
    /\ Len(hist.log) = 2
    /\ hist.log[1].why = "PasswordError"
    /\ hist.log[2].why = "OSError"
    /\ exitStatus = 1

====
